---- MODULE Spec2Model ----
(***************************************************************************)
(* A model of scripts/add_browser_frame.py: the batch driver              *)
(* (process_batch, main), the frame assembler (create_browser_frame,      *)
(* create_title_bar_supersampled) at the level of layers, geometry and    *)
(* the output directory, and the per-pixel arithmetic of the composite    *)
(* stack (Image.alpha_composite, Image.paste with a mask).                *)
(***************************************************************************)
EXTENDS Integers, Sequences, FiniteSets, TLC

(* ---------------------------------------------------------------------- *)
(* Styling constants of the script.                                        *)
(* ---------------------------------------------------------------------- *)
TITLE_BAR_HEIGHT == 32
CORNER_RADIUS == 10
SHADOW_OFFSET == 4
PADDING == 20
SUPERSAMPLE_SCALE == 3

(* ---------------------------------------------------------------------- *)
(* Bounds of the model.                                                    *)
(* ---------------------------------------------------------------------- *)
\* Source images are 1..MaxDim pixels wide and high.
MaxDim == 2
\* --radius ranges over -1..MaxRadius and the default CORNER_RADIUS.
MaxRadius == 2

Dims == 1..MaxDim
Radii == (-1..MaxRadius) \cup {CORNER_RADIUS}

(* ---------------------------------------------------------------------- *)
(* Paths.  A directory entry is its stem and its suffix; the entries the   *)
(* model draws a directory from, in the order sorted() gives them.         *)
(* ---------------------------------------------------------------------- *)
AllEntries ==
    << [stem |-> "a", suffix |-> ".jpg"],
       [stem |-> "a", suffix |-> ".png"],
       [stem |-> "b", suffix |-> ".PNG"],
       [stem |-> "notes", suffix |-> ".txt"] >>

EntrySet == {AllEntries[i] : i \in 1..Len(AllEntries)}

\* str.lower() on the suffixes above
Lower(suffix) ==
    CASE suffix = ".PNG" -> ".png"
      [] OTHER -> suffix

image_extensions == {".png", ".jpg", ".jpeg", ".webp", ".bmp", ".gif"}

Recognized(e) == Lower(e.suffix) \in image_extensions

\* sorted(input_path.iterdir()): the entries of the directory in path order
SortedEntries(S) == SelectSeq(AllEntries, LAMBDA e : e \in S)

NoEntry == [stem |-> "", suffix |-> ""]

\* The output paths: output_path / f"{stem}{suffix}.png", one per stem (the
\* "_framed" suffix is the same for every file of a run), and output_path
\* itself when a single file is written to a path that is no directory.
OutStems == {AllEntries[i].stem : i \in 1..Len(AllEntries)}
OutPaths == OutStems \cup {"<output_path>"}
NoPath == "<none>"

\* suffix = "" if keep_name else "_framed": part of every output name of a
\* run alike, so the output paths above stand for either choice
Suffix(keep) == IF keep THEN "" ELSE "_framed"

\* output_file of the single-file branch
SingleOutputFile(e, is_dir) == IF is_dir THEN e.stem ELSE "<output_path>"

\* output_file of the directory branch
BatchOutputFile(e) == e.stem

(* ---------------------------------------------------------------------- *)
(* Geometry of create_browser_frame.                                       *)
(* ---------------------------------------------------------------------- *)
FrameWidth(w) == w
FrameHeight(h) == h + TITLE_BAR_HEIGHT

CanvasWidth(sh, fw) == IF sh THEN fw + (PADDING * 2) ELSE fw
\* A faulty CanvasHeight: the padding added on one side only
CanvasHeightPaddedOnce(sh, fh) == IF sh THEN fh + PADDING ELSE fh
CanvasHeight(sh, fh) == IF sh THEN fh + (PADDING * 2) ELSE fh
OffsetX(sh) == IF sh THEN PADDING ELSE 0
OffsetY(sh) == IF sh THEN PADDING ELSE 0

Min(a, b) == IF a < b THEN a ELSE b
Max(a, b) == IF a > b THEN a ELSE b

\* ImageDraw.rounded_rectangle / rectangle refuse a box with x1 < x0 or
\* y1 < y0; a negative radius makes the corner boxes (x0, y0, x0 + d, y0 + d)
\* such boxes.
RectangleRaises(xy) == xy[3] < xy[1] \/ xy[4] < xy[2]
RoundedRectangleRaises(xy, radius) == RectangleRaises(xy) \/ radius < 0

\* The target pixels a filled high-resolution box (corners inclusive) covers,
\* wholly or in part, once the canvas is resized by 1/SUPERSAMPLE_SCALE: the
\* box clipped to the canvas, as <<x0, y0, x1, y1>> in target pixels.
Downscaled(xy, cw, ch) ==
    << Max(xy[1] \div SUPERSAMPLE_SCALE, 0),
       Max(xy[2] \div SUPERSAMPLE_SCALE, 0),
       Min(xy[3] \div SUPERSAMPLE_SCALE, cw - 1),
       Min(xy[4] \div SUPERSAMPLE_SCALE, ch - 1) >>

\* Two boxes with the same left, right and top edges drawn one over the other
UnionBox(a, b) == << Min(a[1], b[1]), Min(a[2], b[2]), Max(a[3], b[3]), Max(a[4], b[4]) >>

NoBox == << 0, 0, -1, -1 >>

\* A layer that has not been produced (None), and one that has: the radius
\* and the high-resolution boxes its drawing calls were given (the rounded
\* rectangle, the plain rectangle that squares one side off), whether title
\* text was drawn, and the target pixels the drawing covers after the resize.
NoLayer ==
    [made |-> FALSE, radius |-> 0, rect |-> NoBox, square |-> NoBox,
     title |-> FALSE, box |-> NoBox]

MakeLayer(radius, rect, square, ttl, w, h) ==
    [made |-> TRUE, radius |-> radius, rect |-> rect, square |-> square,
     title |-> ttl,
     box |-> Downscaled(IF square = NoBox THEN rect ELSE UnionBox(rect, square), w, h)]

LayerNames == {"shadow_canvas", "bg_layer", "title_bar", "source",
               "title_bar_layer", "content_layer"}

\* A faulty CompositeOnto: the layer put under what the canvas holds
CompositeUnder(canvas, layer) == << layer >> \o canvas
\* Image.alpha_composite(canvas, layer) / canvas.paste(layer, ...): the layer
\* goes on top of what the canvas holds
CompositeOnto(canvas, layer) == Append(canvas, layer)

NoImage == [made |-> FALSE, width |-> 0, height |-> 0, layers |-> <<>>]

VARIABLES
    \* the invocation: main's arguments and what the paths hold
    input_kind, listing, decodable, output_is_dir,
    title, shadow, corner_radius, keep_name,
    \* the filesystem under output_path
    fs, out_dir_made,
    \* process_batch
    status, error, todo, created_files, processed,
    \* create_browser_frame
    pc, img_path, output_file,
    src_width, src_height, frame_width, frame_height,
    canvas_width, canvas_height, offset_x, offset_y,
    final, shadow_canvas, bg_layer, title_bar, content_mask,
    content_layer, title_bar_layer, final_with_content,
    uses, created, saved_image,
    \* one pixel of the canvas through the composite stack
    px_pc, px_region, px_shadow, px_bg, px_title, px_source,
    px_mask, px_final, px_title_layer, px_content_layer, px_out

argVars == << input_kind, listing, decodable, output_is_dir,
              title, shadow, corner_radius, keep_name >>
batchVars == << status, error, todo, created_files, processed >>
geomVars == << src_width, src_height, frame_width, frame_height,
               canvas_width, canvas_height, offset_x, offset_y >>
layerVars == << final, shadow_canvas, bg_layer, title_bar, content_mask,
                content_layer, title_bar_layer, final_with_content, uses >>
saveVars == << fs, created, saved_image >>
pixelVars == << px_pc, px_region, px_shadow, px_bg, px_title,
                px_source, px_mask, px_final, px_title_layer,
                px_content_layer, px_out >>

vars == << argVars, batchVars, geomVars, layerVars, saveVars,
           out_dir_made, pc, img_path, output_file, pixelVars >>

(* ---------------------------------------------------------------------- *)
(* Pixel arithmetic of the imaging library calls the script makes.  A      *)
(* pixel is one colour channel c and the alpha a, both 0..255 (the three   *)
(* colour channels are treated alike).                                     *)
(* ---------------------------------------------------------------------- *)
Px(c, a) == [c |-> c, a |-> a]
Transparent == Px(0, 0)

ShiftForDiv255(v) == ((v \div 256) + v) \div 256
Div255(v) == ShiftForDiv255(v + 128)

\* A faulty AlphaComposite: dst over src
AlphaCompositeSwapped(dst, src) ==
    IF dst.a = 0 THEN src
    ELSE LET blend == src.a * (255 - dst.a)
             outa255 == dst.a * 255 + blend
             coef1 == (dst.a * 255 * 255 * 128) \div outa255
             coef2 == 255 * 128 - coef1
         IN  Px(ShiftForDiv255(dst.c * coef1 + src.c * coef2 + 128 * 128) \div 128,
                ShiftForDiv255(outa255 + 128))

\* Image.alpha_composite(dst, src): src over dst
AlphaComposite(dst, src) ==
    IF src.a = 0 THEN dst
    ELSE LET blend == dst.a * (255 - src.a)
             outa255 == src.a * 255 + blend
             coef1 == (src.a * 255 * 255 * 128) \div outa255
             coef2 == 255 * 128 - coef1
         IN  Px(ShiftForDiv255(src.c * coef1 + dst.c * coef2 + 128 * 128) \div 128,
                ShiftForDiv255(outa255 + 128))

\* dst.paste(src, box, mask): every channel of the pixel, alpha included, is
\* the mask-weighted mean of dst and src
PasteMask(dst, src, m) ==
    Px(Div255(dst.c * (255 - m) + src.c * m), Div255(dst.a * (255 - m) + src.a * m))

\* dst.paste(src, box): the pixel is copied
Paste(dst, src) == src

(* ---------------------------------------------------------------------- *)
(* Initial states.                                                         *)
(* ---------------------------------------------------------------------- *)
NoUses == [l \in LayerNames |-> 0]

\* create_browser_frame's locals before the call and after it returned
FrameIdle ==
    /\ pc = "idle"
    /\ img_path = NoEntry
    /\ output_file = NoPath
    /\ src_width = 0 /\ src_height = 0
    /\ frame_width = 0 /\ frame_height = 0
    /\ canvas_width = 0 /\ canvas_height = 0
    /\ offset_x = 0 /\ offset_y = 0
    /\ final = <<>>
    /\ shadow_canvas = NoLayer
    /\ bg_layer = NoLayer
    /\ title_bar = NoLayer
    /\ content_mask = NoLayer
    /\ content_layer = NoLayer
    /\ title_bar_layer = NoLayer
    /\ final_with_content = <<>>
    /\ uses = NoUses
    /\ created = FALSE
    /\ saved_image = NoImage

\* The pixel variables while the pipeline of one pixel is not looked at
PixelOff ==
    /\ px_pc = "off"
    /\ px_region = "content"
    /\ px_shadow = Transparent
    /\ px_bg = Transparent
    /\ px_title = Transparent
    /\ px_source = Transparent
    /\ px_mask = 0
    /\ px_final = Transparent
    /\ px_title_layer = Transparent
    /\ px_content_layer = Transparent
    /\ px_out = Transparent

\* main's arguments (argparse) and what the input path holds: a file, a
\* directory of entries, or nothing.  Only entries with an image suffix are
\* taken to hold an image; some of them may not decode.
InitArgs ==
    /\ input_kind \in {"file", "dir", "missing"}
    /\ listing \in SUBSET EntrySet
    /\ input_kind = "file" => Cardinality(listing) = 1
    /\ input_kind = "missing" => listing = {}
    /\ decodable \in SUBSET {e \in listing : Recognized(e)}
    /\ output_is_dir \in BOOLEAN
    /\ input_kind # "file" => output_is_dir
    /\ title \in BOOLEAN
    /\ shadow \in BOOLEAN
    /\ corner_radius \in Radii
    /\ keep_name \in BOOLEAN

\* The output directory is empty, or holds the outputs of an earlier run.
InitFs ==
    \E rerun \in BOOLEAN :
        /\ fs = [p \in OutPaths |-> IF rerun THEN "old" ELSE "absent"]
        /\ out_dir_made = rerun

Init ==
    /\ InitArgs
    /\ InitFs
    /\ status = "init"
    /\ error = "none"
    /\ todo = <<>>
    /\ created_files = <<>>
    /\ processed = -1
    /\ FrameIdle
    /\ PixelOff

(* ---------------------------------------------------------------------- *)
(* process_batch and main.                                                 *)
(* ---------------------------------------------------------------------- *)
frameVars == << pc, img_path, output_file, geomVars, layerVars, created, saved_image >>

\* input_path neither a file nor a directory: the error line and sys.exit(1)
ProcessBatchMissing ==
    /\ status = "init"
    /\ input_kind = "missing"
    /\ status' = "exited"
    /\ error' = "PathError"
    /\ UNCHANGED << argVars, todo, created_files, processed, fs, out_dir_made,
                    frameVars, pixelVars >>

\* input_path.is_file(): the one file is framed whatever its suffix
ProcessBatchFile ==
    /\ status = "init"
    /\ input_kind = "file"
    /\ status' = "running"
    /\ todo' = SortedEntries(listing)
    /\ UNCHANGED << argVars, error, created_files, processed, fs, out_dir_made,
                    frameVars, pixelVars >>

\* input_path.is_dir(): the output directory is made and the entries sorted
ProcessBatchDir ==
    /\ status = "init"
    /\ input_kind = "dir"
    /\ status' = "running"
    /\ out_dir_made' = TRUE
    /\ todo' = SortedEntries(listing)
    /\ UNCHANGED << argVars, error, created_files, processed, fs,
                    frameVars, pixelVars >>

\* an entry whose suffix is no image extension is passed over
SkipEntry ==
    /\ status = "running"
    /\ pc = "idle"
    /\ input_kind = "dir"
    /\ todo # <<>>
    /\ ~Recognized(Head(todo))
    /\ todo' = Tail(todo)
    /\ UNCHANGED << argVars, status, error, created_files, processed, fs,
                    out_dir_made, frameVars, pixelVars >>

\* the call of create_browser_frame, with the output path built for it
CallCreateBrowserFrame ==
    /\ status = "running"
    /\ pc = "idle"
    /\ todo # <<>>
    /\ input_kind = "dir" => Recognized(Head(todo))
    /\ img_path' = Head(todo)
    /\ output_file' = IF input_kind = "file"
                      THEN SingleOutputFile(Head(todo), output_is_dir)
                      ELSE BatchOutputFile(Head(todo))
    /\ todo' = Tail(todo)
    /\ pc' = "open"
    /\ UNCHANGED << argVars, status, error, created_files, processed, fs,
                    out_dir_made, geomVars, layerVars, created, saved_image,
                    pixelVars >>

\* return created_files; main prints the count
ReturnCreatedFiles ==
    /\ status = "running"
    /\ pc = "idle"
    /\ todo = <<>>
    /\ status' = "done"
    /\ processed' = Len(created_files)
    /\ UNCHANGED << argVars, error, todo, created_files, fs, out_dir_made,
                    frameVars, pixelVars >>

\* An exception leaves create_browser_frame and, nothing catching it,
\* process_batch and main.
Raise(exc) ==
    /\ status' = "aborted"
    /\ error' = exc
    /\ pc' = "raised"

(* ---------------------------------------------------------------------- *)
(* create_browser_frame, statement by statement.                           *)
(* ---------------------------------------------------------------------- *)
callVars == << argVars, todo, created_files, processed, img_path, output_file,
               pixelVars >>

Used(layer) == [uses EXCEPT ![layer] = @ + 1]

\* Image.open(image_path).convert("RGBA"); source.size
ImageOpen ==
    /\ pc = "open"
    /\ img_path \in decodable
    /\ \E w \in Dims, h \in Dims :
          /\ src_width' = w
          /\ src_height' = h
    /\ pc' = "geometry"
    /\ UNCHANGED << callVars, status, error, fs, out_dir_made, frame_width,
                    frame_height, canvas_width, canvas_height, offset_x,
                    offset_y, layerVars, created, saved_image >>

\* Image.open on a file that holds no image raises
ImageOpenRaises ==
    /\ pc = "open"
    /\ img_path \notin decodable
    /\ Raise("UnidentifiedImageError")
    /\ UNCHANGED << callVars, fs, out_dir_made, geomVars, layerVars, created,
                    saved_image >>

\* frame and canvas dimensions, offsets, and the first canvas
CalculateCanvas ==
    /\ pc = "geometry"
    /\ frame_width' = FrameWidth(src_width)
    /\ frame_height' = FrameHeight(src_height)
    /\ canvas_width' = CanvasWidth(shadow, FrameWidth(src_width))
    /\ canvas_height' = CanvasHeight(shadow, FrameHeight(src_height))
    /\ offset_x' = OffsetX(shadow)
    /\ offset_y' = OffsetY(shadow)
    /\ final' = <<>>
    /\ shadow_canvas' = NoLayer
    /\ pc' = "shadow"
    /\ UNCHANGED << callVars, status, error, fs, out_dir_made, src_width,
                    src_height, bg_layer, title_bar, content_mask,
                    content_layer, title_bar_layer, final_with_content, uses,
                    created, saved_image >>

shadow_rect ==
    << (offset_x + SHADOW_OFFSET) * SUPERSAMPLE_SCALE,
       (offset_y + SHADOW_OFFSET) * SUPERSAMPLE_SCALE,
       (offset_x + frame_width + SHADOW_OFFSET) * SUPERSAMPLE_SCALE,
       (offset_y + frame_height + SHADOW_OFFSET) * SUPERSAMPLE_SCALE >>

frame_rect_hi ==
    << offset_x * SUPERSAMPLE_SCALE,
       offset_y * SUPERSAMPLE_SCALE,
       (offset_x + frame_width) * SUPERSAMPLE_SCALE,
       (offset_y + frame_height) * SUPERSAMPLE_SCALE >>

content_rect_hi ==
    << offset_x * SUPERSAMPLE_SCALE,
       (offset_y + TITLE_BAR_HEIGHT) * SUPERSAMPLE_SCALE,
       (offset_x + frame_width) * SUPERSAMPLE_SCALE,
       (offset_y + frame_height) * SUPERSAMPLE_SCALE >>

\* the plain rectangle that squares off the top of the content mask
content_top_hi ==
    << offset_x * SUPERSAMPLE_SCALE,
       (offset_y + TITLE_BAR_HEIGHT) * SUPERSAMPLE_SCALE,
       (offset_x + frame_width) * SUPERSAMPLE_SCALE,
       (offset_y + TITLE_BAR_HEIGHT + corner_radius) * SUPERSAMPLE_SCALE >>

\* the radius every drawing call of the frame is given
HiRadius == corner_radius * SUPERSAMPLE_SCALE

\* if shadow: the shadow is drawn, resized, blurred and composited
CreateShadow ==
    /\ pc = "shadow"
    /\ shadow
    /\ ~RoundedRectangleRaises(shadow_rect, HiRadius)
    /\ shadow_canvas' = MakeLayer(HiRadius, shadow_rect, NoBox, FALSE,
                                  canvas_width, canvas_height)
    /\ final' = CompositeOnto(final, "shadow_canvas")
    /\ uses' = Used("shadow_canvas")
    /\ pc' = "background"
    /\ UNCHANGED << callVars, status, error, fs, out_dir_made, geomVars,
                    bg_layer, title_bar, content_mask, content_layer,
                    title_bar_layer, final_with_content, created,
                    saved_image >>

\* shadow disabled: the block is not entered and shadow_canvas stays None
SkipShadow ==
    /\ pc = "shadow"
    /\ ~shadow
    /\ pc' = "background"
    /\ UNCHANGED << callVars, status, error, fs, out_dir_made, geomVars,
                    layerVars, created, saved_image >>

\* the shadow's rounded rectangle is refused
CreateShadowRaises ==
    /\ pc = "shadow"
    /\ shadow
    /\ RoundedRectangleRaises(shadow_rect, HiRadius)
    /\ Raise("ValueError")
    /\ UNCHANGED << callVars, fs, out_dir_made, geomVars, layerVars, created,
                    saved_image >>

\* the white background is drawn, resized and composited
CreateBackground ==
    /\ pc = "background"
    /\ ~RoundedRectangleRaises(frame_rect_hi, HiRadius)
    /\ bg_layer' = MakeLayer(HiRadius, frame_rect_hi, NoBox, FALSE,
                             canvas_width, canvas_height)
    /\ final' = CompositeOnto(final, "bg_layer")
    /\ uses' = Used("bg_layer")
    /\ pc' = "title_bar"
    /\ UNCHANGED << callVars, status, error, fs, out_dir_made, geomVars,
                    shadow_canvas, title_bar, content_mask, content_layer,
                    title_bar_layer, final_with_content, created,
                    saved_image >>

\* the background's rounded rectangle is refused
CreateBackgroundRaises ==
    /\ pc = "background"
    /\ RoundedRectangleRaises(frame_rect_hi, HiRadius)
    /\ Raise("ValueError")
    /\ UNCHANGED << callVars, fs, out_dir_made, geomVars, layerVars, created,
                    saved_image >>

\* create_title_bar_supersampled(frame_width, TITLE_BAR_HEIGHT, corner_radius,
\* title): the bar's rounded rectangle, the rectangle squaring its bottom
\* off, buttons, title text if any, border line, resize
TitleBarSupersampled(width, height, radius, ttl) ==
    LET hi_width == width * SUPERSAMPLE_SCALE
        hi_height == height * SUPERSAMPLE_SCALE
        hi_radius == radius * SUPERSAMPLE_SCALE
    IN  MakeLayer(hi_radius,
                  << 0, 0, hi_width, hi_height >>,
                  << 0, hi_height - hi_radius, hi_width, hi_height >>,
                  ttl, width, height)

\* the title bar is made and pasted on the first canvas (the radius is not
\* negative here: the background's rounded rectangle was drawn with it)
CreateTitleBar ==
    /\ pc = "title_bar"
    /\ title_bar' = TitleBarSupersampled(frame_width, TITLE_BAR_HEIGHT,
                                         corner_radius, title)
    /\ final' = CompositeOnto(final, "title_bar")
    /\ uses' = Used("title_bar")
    /\ pc' = "paste_source"
    /\ UNCHANGED << callVars, status, error, fs, out_dir_made, geomVars,
                    shadow_canvas, bg_layer, content_mask, content_layer,
                    title_bar_layer, final_with_content, created,
                    saved_image >>

\* final.paste(source, content_position)
PasteSource ==
    /\ pc = "paste_source"
    /\ final' = CompositeOnto(final, "source")
    /\ uses' = Used("source")
    /\ pc' = "content_mask"
    /\ UNCHANGED << callVars, status, error, fs, out_dir_made, geomVars,
                    shadow_canvas, bg_layer, title_bar, content_mask,
                    content_layer, title_bar_layer, final_with_content,
                    created, saved_image >>

\* the content mask: rounded rectangle over the content rectangle, its top
\* squared off for corner_radius rows, resized
CreateContentMask ==
    /\ pc = "content_mask"
    /\ content_mask' = MakeLayer(HiRadius, content_rect_hi, content_top_hi,
                                 FALSE, canvas_width, canvas_height)
    /\ pc' = "content_layer"
    /\ UNCHANGED << callVars, status, error, fs, out_dir_made, geomVars,
                    final, shadow_canvas, bg_layer, title_bar, content_layer,
                    title_bar_layer, final_with_content, uses, created,
                    saved_image >>

\* content_layer: the source pasted on a transparent canvas
CreateContentLayer ==
    /\ pc = "content_layer"
    /\ content_layer' = MakeLayer(0, content_rect_hi, NoBox, FALSE,
                                  canvas_width, canvas_height)
    /\ uses' = Used("source")
    /\ pc' = "readd_shadow"
    /\ UNCHANGED << callVars, status, error, fs, out_dir_made, geomVars,
                    final, shadow_canvas, bg_layer, title_bar, content_mask,
                    title_bar_layer, final_with_content, created,
                    saved_image >>

\* final_with_content, a second transparent canvas, and the shadow on it if
\* shadow and shadow_canvas is not None
ReAddShadow ==
    /\ pc = "readd_shadow"
    /\ IF shadow /\ shadow_canvas.made
       THEN /\ final_with_content' = CompositeOnto(<<>>, "shadow_canvas")
            /\ uses' = Used("shadow_canvas")
       ELSE /\ final_with_content' = <<>>
            /\ UNCHANGED uses
    /\ pc' = "readd_background"
    /\ UNCHANGED << callVars, status, error, fs, out_dir_made, geomVars,
                    final, shadow_canvas, bg_layer, title_bar, content_mask,
                    content_layer, title_bar_layer, created, saved_image >>

\* Image.alpha_composite(final_with_content, bg_layer)
ReAddBackground ==
    /\ pc = "readd_background"
    /\ final_with_content' = CompositeOnto(final_with_content, "bg_layer")
    /\ uses' = Used("bg_layer")
    /\ pc' = "add_title_bar"
    /\ UNCHANGED << callVars, status, error, fs, out_dir_made, geomVars,
                    final, shadow_canvas, bg_layer, title_bar, content_mask,
                    content_layer, title_bar_layer, created, saved_image >>

\* title_bar pasted on a transparent title_bar_layer, and that composited
AddTitleBar ==
    /\ pc = "add_title_bar"
    /\ title_bar_layer' = [title_bar EXCEPT
           !.box = << offset_x + @[1], offset_y + @[2],
                      offset_x + @[3], offset_y + @[4] >>]
    /\ final_with_content' = CompositeOnto(final_with_content, "title_bar_layer")
    /\ uses' = [uses EXCEPT !["title_bar"] = @ + 1, !["title_bar_layer"] = @ + 1]
    /\ pc' = "add_content"
    /\ UNCHANGED << callVars, status, error, fs, out_dir_made, geomVars,
                    final, shadow_canvas, bg_layer, title_bar, content_mask,
                    content_layer, created, saved_image >>

\* final_with_content.paste(content_layer, (0, 0), content_mask)
AddContent ==
    /\ pc = "add_content"
    /\ final_with_content' = CompositeOnto(final_with_content, "content_layer")
    /\ uses' = Used("content_layer")
    /\ pc' = "save"
    /\ UNCHANGED << callVars, status, error, fs, out_dir_made, geomVars,
                    final, shadow_canvas, bg_layer, title_bar, content_mask,
                    content_layer, title_bar_layer, created, saved_image >>

\* output_path.parent.mkdir; Image.save opens the path for writing, which
\* empties a file already there, and notes whether it made the file
SaveOpen ==
    /\ pc = "save"
    /\ out_dir_made' = TRUE
    /\ created' = (fs[output_file] = "absent")
    /\ fs' = [fs EXCEPT ![output_file] = "partial"]
    /\ saved_image' = [made |-> TRUE, width |-> canvas_width,
                       height |-> canvas_height, layers |-> final_with_content]
    /\ pc' = "write"
    /\ UNCHANGED << callVars, status, error, geomVars, layerVars >>

\* the encoder writes the whole image and the file is closed
SaveWrite ==
    /\ pc = "write"
    /\ fs' = [fs EXCEPT ![output_file] = "complete"]
    /\ pc' = "return"
    /\ UNCHANGED << callVars, status, error, out_dir_made, geomVars, layerVars,
                    created, saved_image >>

\* Writing fails (the disk is full, say): Image.save closes the file,
\* removes it only if it made it, and raises again.
SaveWriteRaises ==
    /\ pc = "write"
    /\ fs' = [fs EXCEPT ![output_file] = IF created THEN "absent" ELSE "partial"]
    /\ Raise("OSError")
    /\ UNCHANGED << callVars, out_dir_made, geomVars, layerVars, created,
                    saved_image >>

\* the locals of create_browser_frame go with its return
DropLocals ==
    /\ pc' = "idle"
    /\ img_path' = NoEntry
    /\ output_file' = NoPath
    /\ src_width' = 0 /\ src_height' = 0
    /\ frame_width' = 0 /\ frame_height' = 0
    /\ canvas_width' = 0 /\ canvas_height' = 0
    /\ offset_x' = 0 /\ offset_y' = 0
    /\ final' = <<>>
    /\ shadow_canvas' = NoLayer
    /\ bg_layer' = NoLayer
    /\ title_bar' = NoLayer
    /\ content_mask' = NoLayer
    /\ content_layer' = NoLayer
    /\ title_bar_layer' = NoLayer
    /\ final_with_content' = <<>>
    /\ uses' = NoUses
    /\ created' = FALSE
    /\ saved_image' = NoImage

\* return output_path; created_files.append(result); print
ReturnOutputPath ==
    /\ pc = "return"
    /\ created_files' = Append(created_files, output_file)
    /\ DropLocals
    /\ UNCHANGED << argVars, todo, processed, pixelVars, status, error, fs,
                    out_dir_made >>

CreateBrowserFrame ==
    \/ ImageOpen
    \/ ImageOpenRaises
    \/ CalculateCanvas
    \/ CreateShadow
    \/ SkipShadow
    \/ CreateShadowRaises
    \/ CreateBackground
    \/ CreateBackgroundRaises
    \/ CreateTitleBar
    \/ PasteSource
    \/ CreateContentMask
    \/ CreateContentLayer
    \/ ReAddShadow
    \/ ReAddBackground
    \/ AddTitleBar
    \/ AddContent
    \/ SaveOpen
    \/ SaveWrite
    \/ SaveWriteRaises
    \/ ReturnOutputPath

Next ==
    \/ ProcessBatchMissing
    \/ ProcessBatchFile
    \/ ProcessBatchDir
    \/ SkipEntry
    \/ CallCreateBrowserFrame
    \/ CreateBrowserFrame
    \/ ReturnCreatedFiles

Spec == Init /\ [][Next]_vars

(* ---------------------------------------------------------------------- *)
(* One pixel of the frame rectangle through create_browser_frame: the      *)
(* values the layers hold at that pixel, and the two canvases built from   *)
(* them.  px_region says whether the pixel lies in the title bar or in the *)
(* content rectangle below it.                                             *)
(* ---------------------------------------------------------------------- *)
\* alpha of an anti-aliased edge: outside, on the edge, inside
Coverage == {0, 128, 255}
\* the blurred shadow: SHADOW_COLOR is black with alpha 80
ShadowPixels == {Px(0, 0), Px(0, 40), Px(0, 80)}
\* the white background
BackgroundPixels == {Px(0, 0), Px(255, 128), Px(255, 255)}
\* the title bar: TITLE_BAR_COLOR, text, BORDER_COLOR
TitleBarPixels == {Px(0, 0), Px(232, 128), Px(232, 255), Px(80, 255), Px(200, 255)}
\* the source image converted to RGBA
SourcePixels == {Px(c, a) : c \in {0, 200}, a \in Coverage}

\* The batch variables while only a pixel is looked at: one decodable file
OneFile ==
    /\ input_kind = "file"
    /\ listing = {AllEntries[2]}
    /\ decodable = {AllEntries[2]}
    /\ output_is_dir = FALSE
    /\ title = FALSE
    /\ corner_radius = CORNER_RADIUS
    /\ keep_name = FALSE
    /\ fs = [p \in OutPaths |-> "absent"]
    /\ out_dir_made = FALSE
    /\ status = "init"
    /\ error = "none"
    /\ todo = <<>>
    /\ created_files = <<>>
    /\ processed = -1
    /\ FrameIdle

PixelInit ==
    /\ OneFile
    /\ shadow \in BOOLEAN
    /\ px_region \in {"title_bar", "content"}
    /\ px_shadow \in (IF shadow THEN ShadowPixels ELSE {Transparent})
    /\ px_bg \in BackgroundPixels
    /\ px_title \in (IF px_region = "title_bar" THEN TitleBarPixels ELSE {Transparent})
    /\ px_source \in (IF px_region = "content" THEN SourcePixels ELSE {Transparent})
    /\ px_mask \in (IF px_region = "content" THEN Coverage ELSE {0})
    /\ px_pc = "shadow"
    /\ px_final = Transparent
    /\ px_title_layer = Transparent
    /\ px_content_layer = Transparent
    /\ px_out = Transparent

mainVars == << argVars, batchVars, geomVars, layerVars, saveVars,
               out_dir_made, pc, img_path, output_file >>
pxInputs == << px_region, px_shadow, px_bg, px_title, px_source, px_mask >>

\* final = Image.alpha_composite(final, shadow_canvas), if shadow
PxCreateShadow ==
    /\ px_pc = "shadow"
    /\ px_final' = IF shadow THEN AlphaComposite(Transparent, px_shadow)
                   ELSE Transparent
    /\ px_pc' = "background"
    /\ UNCHANGED << mainVars, pxInputs, px_title_layer, px_content_layer, px_out >>

\* final = Image.alpha_composite(final, bg_layer)
PxCreateBackground ==
    /\ px_pc = "background"
    /\ px_final' = AlphaComposite(px_final, px_bg)
    /\ px_pc' = "title_bar"
    /\ UNCHANGED << mainVars, pxInputs, px_title_layer, px_content_layer, px_out >>

\* final.paste(title_bar, (offset_x, offset_y), title_bar)
PxPasteTitleBar ==
    /\ px_pc = "title_bar"
    /\ px_final' = IF px_region = "title_bar"
                   THEN PasteMask(px_final, px_title, px_title.a)
                   ELSE px_final
    /\ px_pc' = "paste_source"
    /\ UNCHANGED << mainVars, pxInputs, px_title_layer, px_content_layer, px_out >>

\* final.paste(source, content_position)
PxPasteSource ==
    /\ px_pc = "paste_source"
    /\ px_final' = IF px_region = "content" THEN Paste(px_final, px_source)
                   ELSE px_final
    /\ px_pc' = "content_layer"
    /\ UNCHANGED << mainVars, pxInputs, px_title_layer, px_content_layer, px_out >>

\* content_layer.paste(source, content_position) on a transparent canvas
PxCreateContentLayer ==
    /\ px_pc = "content_layer"
    /\ px_content_layer' = IF px_region = "content"
                           THEN Paste(Transparent, px_source)
                           ELSE Transparent
    /\ px_pc' = "readd_shadow"
    /\ UNCHANGED << mainVars, pxInputs, px_final, px_title_layer, px_out >>

\* final_with_content, transparent, and the shadow composited on it
PxReAddShadow ==
    /\ px_pc = "readd_shadow"
    /\ px_out' = IF shadow THEN AlphaComposite(Transparent, px_shadow)
                 ELSE Transparent
    /\ px_pc' = "readd_background"
    /\ UNCHANGED << mainVars, pxInputs, px_final, px_title_layer, px_content_layer >>

\* Image.alpha_composite(final_with_content, bg_layer)
PxReAddBackground ==
    /\ px_pc = "readd_background"
    /\ px_out' = AlphaComposite(px_out, px_bg)
    /\ px_pc' = "add_title_bar"
    /\ UNCHANGED << mainVars, pxInputs, px_final, px_title_layer, px_content_layer >>

\* title_bar_layer.paste(title_bar, ..., title_bar) on a transparent canvas
TitleBarLayerPixel(region, ttl) ==
    IF region = "title_bar" THEN PasteMask(Transparent, ttl, ttl.a) ELSE Transparent

\* Image.alpha_composite(final_with_content, title_bar_layer)
PxAddTitleBar ==
    /\ px_pc = "add_title_bar"
    /\ px_title_layer' = TitleBarLayerPixel(px_region, px_title)
    /\ px_out' = AlphaComposite(px_out, TitleBarLayerPixel(px_region, px_title))
    /\ px_pc' = "add_content"
    /\ UNCHANGED << mainVars, pxInputs, px_final, px_content_layer >>

\* final_with_content.paste(content_layer, (0, 0), content_mask); save
PxAddContent ==
    /\ px_pc = "add_content"
    /\ px_out' = PasteMask(px_out, px_content_layer, px_mask)
    /\ px_pc' = "saved"
    /\ UNCHANGED << mainVars, pxInputs, px_final, px_title_layer, px_content_layer >>

PixelNext ==
    \/ PxCreateShadow
    \/ PxCreateBackground
    \/ PxPasteTitleBar
    \/ PxPasteSource
    \/ PxCreateContentLayer
    \/ PxReAddShadow
    \/ PxReAddBackground
    \/ PxAddTitleBar
    \/ PxAddContent

PixelSpec == PixelInit /\ [][PixelNext]_vars

\* The pixel final_with_content holds when it is saved, as a function of the
\* layers' pixels: the second composite pass of create_browser_frame.
FramePixel(sh, shadow_px, bg_px, title_layer_px, content_px, mask) ==
    LET c0 == IF sh THEN AlphaComposite(Transparent, shadow_px) ELSE Transparent
        c1 == AlphaComposite(c0, bg_px)
        c2 == AlphaComposite(c1, title_layer_px)
    IN  PasteMask(c2, content_px, mask)

(* ====================================================================== *)
(* Properties.                                                             *)
(* ====================================================================== *)
RecognizedEntries == {e \in listing : Recognized(e)}
WrittenFiles == {p \in OutPaths : fs[p] = "complete"}

IsPrefix(s, t) == Len(s) <= Len(t) /\ \A i \in 1..Len(s) : s[i] = t[i]

\* the composite order the frame assembler is specified to follow
ExpectedStack(sh) ==
    (IF sh THEN << "shadow_canvas" >> ELSE <<>>)
        \o << "bg_layer", "title_bar_layer", "content_layer" >>

\* the supplied radius clamped into 0 .. half the smaller frame dimension
ClampRadius(r, fw, fh) == Max(0, Min(r, Min(fw, fh) \div 2))

\* C1: the image handed to save is (W + 2*PADDING) x (H + TITLE_BAR_HEIGHT +
\* 2*PADDING) with the shadow and W x (H + TITLE_BAR_HEIGHT) without it, for
\* every source size, title and corner radius.
C1_CanvasSize ==
    saved_image.made =>
        /\ saved_image.width =
              IF shadow THEN src_width + 2 * PADDING ELSE src_width
        /\ saved_image.height =
              IF shadow THEN src_height + TITLE_BAR_HEIGHT + 2 * PADDING
              ELSE src_height + TITLE_BAR_HEIGHT

C1_Witness ==
    /\ pc = "return"
    /\ shadow
    /\ title
    /\ corner_radius = 0
    /\ src_width = MaxDim
    /\ saved_image.width = MaxDim + 40
    /\ fs[output_file] = "complete"

\* C2: the canvas that is saved is built, from transparent, of the shadow
\* layer (only if shadow is enabled), the background, the title bar and the
\* masked content, in this order and no other; with the shadow disabled no
\* shadow layer is produced or applied.
C2_CompositeOrder ==
    /\ IsPrefix(final_with_content, ExpectedStack(shadow))
    /\ saved_image.made => saved_image.layers = ExpectedStack(shadow)
    /\ ~shadow => ~shadow_canvas.made /\ uses["shadow_canvas"] = 0

C2_Witness ==
    /\ pc = "return"
    /\ ~shadow
    /\ saved_image.layers = << "bg_layer", "title_bar_layer", "content_layer" >>
    /\ fs[output_file] = "complete"

\* C3: in directory mode a file that does not decode does not end the batch:
\* with decodable images still to come, process_batch goes on to them.
C3_DecodeFailureIsolated ==
    ( /\ input_kind = "dir"
      /\ error = "UnidentifiedImageError"
      /\ \E i \in 1..Len(todo) : todo[i] \in decodable )
        => status # "aborted"

\* C4: a directory run that returns has written one output file per
\* recognized entry, and returns and reports that many.
C4_OneOutputPerImage ==
    (input_kind = "dir" /\ status = "done") =>
        /\ Cardinality(WrittenFiles) = Cardinality(RecognizedEntries)
        /\ Len(created_files) = Cardinality(RecognizedEntries)
        /\ processed = Cardinality(RecognizedEntries)

\* C5: outside the save call itself, no output path holds a file this run
\* has written only in part; a failure leaves no such file.
C5_NoPartialOutput ==
    pc # "write" => \A p \in OutPaths : fs[p] # "partial"

\* C6: no corner radius makes rendering fail, and every layer is drawn with
\* the supplied radius clamped to the valid range.
C6_RadiusClamped ==
    /\ error # "ValueError"
    /\ \A l \in {shadow_canvas, bg_layer, title_bar, content_mask} :
          l.made => l.radius = ClampRadius(corner_radius, frame_width, frame_height)
                                   * SUPERSAMPLE_SCALE

\* C7: at a pixel of the content rectangle where the background is opaque and
\* the content mask is fully set, the saved pixel is opaque whatever the
\* alpha of the source pixel.
C7_OpaqueUnderMask ==
    ( /\ px_pc = "saved"
      /\ px_region = "content"
      /\ px_bg.a = 255
      /\ px_mask = 255 )
        => px_out.a = 255

\* C8 as claimed: every pixel of the frame rectangle is the same with the
\* shadow enabled as with it disabled.
C8_ShadowNeverAltersFrame ==
    px_pc = "saved" =>
        px_out = FramePixel(FALSE, Transparent, px_bg, px_title_layer,
                            px_content_layer, px_mask)

\* C8 as amended: at every pixel of the frame rectangle where the background
\* layer is fully opaque, the saved pixel is the one the same background,
\* title bar, content and mask values give with no shadow layer.
C8_ShadowNeverAltersOpaqueFrame ==
    (px_pc = "saved" /\ px_bg.a = 255) =>
        px_out = FramePixel(FALSE, Transparent, px_bg, px_title_layer,
                            px_content_layer, px_mask)

C8_Witness ==
    /\ px_pc = "saved"
    /\ shadow
    /\ px_shadow.a = 80
    /\ px_bg.a = 255
    /\ px_region = "content"
    /\ px_mask = 128
    /\ px_source.a = 128

\* C9: no layer is composited or pasted more than once, and the only canvas
\* that has accumulated composites when the function returns is the one saved.
C9_LayersUsedOnce ==
    /\ \A l \in LayerNames : uses[l] <= 1
    /\ pc = "return" => final = <<>>

\* C10: every pixel at which the content mask is nonzero lies in
\* x in [offset_x, offset_x + W], y in [offset_y + TITLE_BAR_HEIGHT,
\* offset_y + TITLE_BAR_HEIGHT + H].
C10_MaskInsideContent ==
    content_mask.made =>
        /\ content_mask.box[1] >= offset_x
        /\ content_mask.box[3] <= offset_x + src_width
        /\ content_mask.box[2] >= offset_y + TITLE_BAR_HEIGHT
        /\ content_mask.box[4] <= offset_y + TITLE_BAR_HEIGHT + src_height

====
